---- MODULE Spec2Model ----
(***************************************************************************)
(* Toy Shop Simulator (src/streamlit_app.py): the round-resolution engine  *)
(* and the game lifecycle, as a state machine.                             *)
(*                                                                         *)
(* One action is one execution of the script: the values the widgets hold  *)
(* are the action's inputs, the button that was pressed selects the        *)
(* handler.  st.session_state is the variable session_state, a function    *)
(* from key names to values; it has an empty domain before a game starts   *)
(* and after st.session_state.clear().                                     *)
(*                                                                         *)
(* Numbers.  Every number_input of the script has integer min_value, value *)
(* and step, so every configured value, price and quantity is an integer.  *)
(* The scenario multipliers are two-decimal numbers and are held in        *)
(* hundredths (1.15 is 115).  The quotients total_spent / total_produced   *)
(* and what is computed from them (cogs, round_profit, inventory_cost,     *)
(* cumulative_profit) are held as exact fractions [num, den] in lowest     *)
(* terms; the script computes them in binary floating point, whose         *)
(* rounding is not modelled.  For the demand, int(max(0, ...)) of the      *)
(* floating-point value equals the floor of the exact value on every       *)
(* combination of base demand, coefficient, price and multiplier explored  *)
(* here.                                                                   *)
(***************************************************************************)
EXTENDS Integers, Sequences, FiniteSets, TLC

VARIABLES
    session_state,  \* st.session_state: key -> value
    config,         \* the values the sidebar's configuration widgets last held
    error,          \* the configuration page shows st.error (lines 205-206)
    preview,        \* what the active-round page last showed for its widgets' values
    summary         \* what the game-over page shows

vars == <<session_state, config, error, preview, summary>>

(***************************************************************************)
(* Bounds of the model.                                                    *)
(***************************************************************************)
MaxRounds == 2
\* the largest num_rounds configured

MaxProduce == 2
\* the largest produce_qty the player enters

MaxBaseDemand == 3
\* the largest base_demand of the games started to exercise the demand

MaxCoeff == 2
\* the largest size of demand_coeff, of either sign, of those games

MaxDemandPrice == 3
\* the largest price entered in those games

\* the prices the player enters
PriceChoices == {1, 2}

\* the catalog entries random.choice is taken to return
ScenarioIndexes == {1, 2}

StartingCashChoices == {0, 3}

StartingInventoryChoices == {0, 1}

CostChoices == {1, 2}

BaseDemandChoices == {3}

DemandCoeffChoices == {-1}

MinPriceChoices == {1}

(***************************************************************************)
(* ScenarioCatalog.  The narrative strings are presentation only.          *)
(***************************************************************************)
SCENARIOS ==
    << [name |-> "Holiday Season",                multiplier |-> 115],
       [name |-> "Economic Recession",            multiplier |-> 85],
       [name |-> "New Competitor Opens",          multiplier |-> 90],
       [name |-> "Successful Marketing Campaign", multiplier |-> 110],
       [name |-> "Back to School",                multiplier |-> 95],
       [name |-> "Local Festival",                multiplier |-> 112],
       [name |-> "Product Recall in Industry",    multiplier |-> 88],
       [name |-> "Celebrity Endorsement",         multiplier |-> 113],
       [name |-> "Rainy Weekend",                 multiplier |-> 108],
       [name |-> "Supply Chain Issues",           multiplier |-> 110] >>

\* the outcomes of random.choice(SCENARIOS) that are explored
ScenarioDraws ==
    {SCENARIOS[i] : i \in ScenarioIndexes}

(***************************************************************************)
(* Exact fractions.  Each operation binds its arguments' values once (as   *)
(* the only element of a set) before it computes with them.                *)
(***************************************************************************)
Abs(x) ==
    IF x < 0 THEN -x ELSE x

RECURSIVE GCD(_, _)
GCD(a, b) ==
    IF b = 0 THEN a ELSE GCD(b, a % b)

\* n / d with d > 0, in lowest terms
Frac(n, d) ==
    CHOOSE f \in {[num |-> x \div g, den |-> y \div g] :
                      <<x, y, g>> \in {<<n, d, GCD(Abs(n), d)>>}} : TRUE

\* an integer as a fraction
FromInt(n) ==
    [num |-> n, den |-> 1]

\* integer k times fraction a
Times(k, a) ==
    CHOOSE f \in {Frac(j * x.num, x.den) : <<j, x>> \in {<<k, a>>}} : TRUE

Plus(a, b) ==
    CHOOSE f \in {Frac(x.num * y.den + y.num * x.den, x.den * y.den) :
                      <<x, y>> \in {<<a, b>>}} : TRUE

Minus(a, b) ==
    CHOOSE f \in {Frac(x.num * y.den - y.num * x.den, x.den * y.den) :
                      <<x, y>> \in {<<a, b>>}} : TRUE

(***************************************************************************)
(* The session state.                                                      *)
(***************************************************************************)
\* a dict without keys: st.session_state before a game and after clear()
Empty ==
    [k \in {} |-> 0]

\* a variant of Cleared that removes only the game_started key
ClearedFlagOnly(s) ==
    [k \in DOMAIN s \ {"game_started"} |-> s[k]]

\* st.session_state.clear()
Cleared(s) ==
    Empty

\* 'game_started' in st.session_state
GameStarted(s) ==
    "game_started" \in DOMAIN s

\* a variant of GameOver that ends the game one round late
GameOverLate(s) ==
    s.current_round > s.num_rounds + 1

\* st.session_state.current_round > st.session_state.num_rounds
GameOver(s) ==
    s.current_round > s.num_rounds

\* the sidebar's configuration widgets
Configs ==
    [num_rounds : 1..MaxRounds,
     starting_cash : StartingCashChoices,
     starting_inventory : StartingInventoryChoices,
     min_cost : CostChoices,
     max_cost : CostChoices,
     base_demand : BaseDemandChoices,
     demand_coeff : DemandCoeffChoices,
     min_price : MinPriceChoices]

\* a variant of ConfigAccepted without the min_cost / max_cost check
ConfigAcceptedAlways(c) ==
    TRUE

\* the Start Game button is offered
ConfigAccepted(c) ==
    ~(c.min_cost > c.max_cost)

\* sum(entry[f] for entry in history[:n]), integer fields
RECURSIVE SumFirst(_, _, _)
SumFirst(history, f, n) ==
    IF n = 0 THEN 0 ELSE SumFirst(history, f, n - 1) + history[n][f]

\* sum(entry[f] for entry in history)
SumOf(history, f) ==
    CHOOSE total \in {SumFirst(h, f, Len(h)) : h \in {history}} : TRUE

\* sum(entry['round_profit'] for entry in history[:n]): 0 + p1 + p2 + ...
RECURSIVE SumRoundProfitFirst(_, _)
SumRoundProfitFirst(history, n) ==
    IF n = 0 THEN FromInt(0)
    ELSE Plus(SumRoundProfitFirst(history, n - 1), history[n].round_profit)

\* sum(entry['round_profit'] for entry in history)
SumRoundProfit(history) ==
    CHOOSE total \in {SumRoundProfitFirst(h, Len(h)) : h \in {history}} : TRUE

(***************************************************************************)
(* The active round: what the page computes from the widgets' values.      *)
(***************************************************************************)
\* a variant of MaxProduceQty that takes the cash for the affordable quantity
MaxProduceQtyIgnoringCost(cash, production_cost) ==
    cash

\* max_produce = int(cash // production_cost if production_cost > 0 else 0)
MaxProduceQty(cash, production_cost) ==
    IF production_cost > 0 THEN cash \div production_cost ELSE 0

\* expected_demand = int(max(0, base_demand + effective_coeff * price)), where
\* effective_coeff = demand_coeff * current_scenario['multiplier'] (hundredths)
ExpectedDemand(s, price) ==
    LET effective_coeff == s.demand_coeff * s.current_scenario.multiplier
        scaled == s.base_demand * 100 + effective_coeff * price
    IN  IF scaled <= 0 THEN 0 ELSE scaled \div 100

\* avg_inventory_cost shown in the caption
AvgInventoryCost(s) ==
    IF s.history # <<>>
    THEN LET total_produced == SumOf(s.history, "produced")
             total_spent == SumOf(s.history, "spent")
         IN  IF total_produced > 0
             THEN Frac(total_spent, total_produced)
             ELSE FromInt(s.current_production_cost)
    ELSE FromInt(s.current_production_cost)

(***************************************************************************)
(* The "Produce, Sell, and End Day" handler's computations.                *)
(***************************************************************************)
\* a variant of Produce that takes nothing from the cash
ProduceForFree(s, produce_qty) ==
    [s EXCEPT !.inventory = s.inventory + produce_qty]

\* the production step: cash -= spent; inventory += produce_qty
Produce(s, produce_qty) ==
    [s EXCEPT !.cash = s.cash - produce_qty * s.current_production_cost,
              !.inventory = s.inventory + produce_qty]

\* a variant of Demand that leaves the scenario multiplier out
DemandIgnoringScenario(base_demand, demand_coeff, current_scenario, price) ==
    LET scaled == base_demand + demand_coeff * price
    IN  IF scaled <= 0 THEN 0 ELSE scaled

\* a variant of Demand that rounds to the nearest integer
DemandRounded(base_demand, demand_coeff, current_scenario, price) ==
    LET round_effective_coeff == demand_coeff * current_scenario.multiplier
        scaled == base_demand * 100 + round_effective_coeff * price
    IN  IF scaled <= 0 THEN 0 ELSE (scaled + 50) \div 100

\* demand = int(max(0, base_demand + round_effective_coeff * price))
Demand(base_demand, demand_coeff, current_scenario, price) ==
    LET round_effective_coeff == demand_coeff * current_scenario.multiplier
        scaled == base_demand * 100 + round_effective_coeff * price
    IN  IF scaled <= 0 THEN 0 ELSE scaled \div 100

\* a variant of Sales without the cap at the inventory
SalesUncapped(demand, inventory) ==
    demand

\* a variant of Sales that takes the larger of the two
SalesMax(demand, inventory) ==
    IF demand >= inventory THEN demand ELSE inventory

\* sales = min(demand, st.session_state.inventory)
Sales(demand, inventory) ==
    IF demand <= inventory THEN demand ELSE inventory

\* a variant of AvgInvCost that costs at the round's production cost
AvgInvCostCurrent(history, production_cost) ==
    FromInt(production_cost)

\* a variant of AvgInvCost that costs at 0 while nothing has been produced
AvgInvCostZeroFallback(history, production_cost) ==
    IF history # <<>>
    THEN LET total_produced == SumOf(history, "produced")
             total_spent == SumOf(history, "spent")
         IN  IF total_produced > 0
             THEN Frac(total_spent, total_produced)
             ELSE FromInt(0)
    ELSE FromInt(production_cost)

\* avg_inv_cost: from the history as it is before this round's entry is appended
AvgInvCost(history, production_cost) ==
    IF history # <<>>
    THEN LET total_produced == SumOf(history, "produced")
             total_spent == SumOf(history, "spent")
         IN  IF total_produced > 0
             THEN Frac(total_spent, total_produced)
             ELSE FromInt(production_cost)
    ELSE FromInt(production_cost)

\* a variant of CumulativeProfit that leaves the earlier rounds out
CumulativeProfitRoundOnly(history, round_profit) ==
    round_profit

\* cumulative_profit = sum(entry['round_profit'] for entry in history) + round_profit
CumulativeProfit(history, round_profit) ==
    Plus(SumRoundProfit(history), round_profit)

\* variants of AdvanceRound: a counter that skips a round, one that stays
AdvanceRoundByTwo(current_round) ==
    current_round + 2

AdvanceRoundStuck(current_round) ==
    current_round

\* st.session_state.current_round += 1
AdvanceRound(current_round) ==
    current_round + 1

\* a variant of AppendEntry that puts the entry first
PrependEntry(history, history_entry) ==
    <<history_entry>> \o history

\* st.session_state.history.append(history_entry)
AppendEntry(history, history_entry) ==
    Append(history, history_entry)

\* a variant of RedrawForNextRound that redraws after every round
RedrawAlways(current_round, num_rounds) ==
    TRUE

\* after the advance: if st.session_state.current_round <= st.session_state.num_rounds
RedrawForNextRound(current_round, num_rounds) ==
    current_round <= num_rounds

\* the session state once the handler has run with the widgets' values
\* produce_qty and price, new_cost and new_scenario being what random.randint
\* and random.choice return if they are called
ResolveRound(s, produce_qty, price, new_cost, new_scenario) ==
    LET production_cost == s.current_production_cost
        current_scenario == s.current_scenario
        spent == produce_qty * production_cost
        cash_produced == Produce(s, produce_qty).cash
        inventory_produced == Produce(s, produce_qty).inventory
        demand == Demand(s.base_demand, s.demand_coeff, current_scenario, price)
        sales == Sales(demand, inventory_produced)
        revenue == sales * price
        avg_inv_cost == AvgInvCost(s.history, production_cost)
        cogs == Times(sales, avg_inv_cost)
        cash_after == cash_produced + revenue
        inventory_after == inventory_produced - sales
        round_profit == Minus(FromInt(revenue), cogs)
        cumulative_profit == CumulativeProfit(s.history, round_profit)
        inventory_value == inventory_after * price
        inventory_cost == Times(inventory_after, avg_inv_cost)
        history_entry ==
            [round |-> s.current_round,
             scenario |-> current_scenario.name,
             production_cost |-> production_cost,
             produced |-> produce_qty,
             price |-> price,
             demand |-> demand,
             sales |-> sales,
             revenue |-> revenue,
             spent |-> spent,
             cogs |-> cogs,
             round_profit |-> round_profit,
             cash_after |-> cash_after,
             inventory_after |-> inventory_after,
             inventory_value |-> inventory_value,
             inventory_cost |-> inventory_cost,
             cumulative_profit |-> cumulative_profit]
        next_round == AdvanceRound(s.current_round)
        settled == [s EXCEPT !.cash = cash_after,
                             !.inventory = inventory_after,
                             !.history = AppendEntry(s.history, history_entry),
                             !.current_round = next_round]
    IN  IF RedrawForNextRound(next_round, s.num_rounds)
        THEN [settled EXCEPT !.current_production_cost = new_cost,
                             !.current_scenario = new_scenario]
        ELSE settled

(***************************************************************************)
(* The game-over page.                                                     *)
(***************************************************************************)
NoSummary ==
    Empty

\* a variant of Summarize that values the inventory at the last price
SummarizeMarkToMarket(s) ==
    LET profit == s.cash - s.starting_cash
        has_history == s.history # <<>>
        last_entry == s.history[Len(s.history)]
        inventory_value == IF has_history THEN s.inventory * last_entry.price ELSE 0
        inventory_cost == IF has_history THEN last_entry.inventory_cost ELSE FromInt(0)
    IN  [profit |-> profit,
         inventory_value |-> inventory_value,
         inventory_cost |-> inventory_cost,
         total_value_created |-> FromInt(profit + inventory_value)]

\* the game-over page's figures
Summarize(s) ==
    LET profit == s.cash - s.starting_cash
        has_history == s.history # <<>>
        last_entry == s.history[Len(s.history)]
        inventory_value == IF has_history THEN s.inventory * last_entry.price ELSE 0
        inventory_cost == IF has_history THEN last_entry.inventory_cost ELSE FromInt(0)
    IN  [profit |-> profit,
         inventory_value |-> inventory_value,
         inventory_cost |-> inventory_cost,
         total_value_created |-> Plus(FromInt(profit), inventory_cost)]

\* display_history_table(): the totals shown under the round history
DisplayHistoryTable(history) ==
    LET total_revenue == SumOf(history, "revenue")
        total_spent == SumOf(history, "spent")
        cumulative_profit == SumRoundProfit(history)
        last_entry == history[Len(history)]
        current_inventory_cost == last_entry.inventory_cost
    IN  [total_revenue |-> total_revenue,
         total_spent |-> total_spent,
         cumulative_profit |-> cumulative_profit,
         total_value_created |->
             IF Len(history) > 0
             THEN Plus(cumulative_profit, current_inventory_cost)
             ELSE cumulative_profit]

NoPreview ==
    Empty

NoConfig ==
    Empty

\* what a run of the script renders from session state s before any widget is edited
Rendered(s) ==
    IF GameStarted(s) /\ GameOver(s) THEN Summarize(s) ELSE NoSummary

(***************************************************************************)
(* The state machine.                                                      *)
(***************************************************************************)
Init ==
    /\ session_state = Empty
    /\ config = NoConfig
    /\ error = FALSE
    /\ preview = NoPreview
    /\ summary = NoSummary

\* a run of the configuration page, the player having set the widgets to c:
\* with min_cost > max_cost st.error is shown, else the Start Game button
Configure(c) ==
    /\ ~GameStarted(session_state)
    /\ config' = c
    /\ error' = ~ConfigAccepted(c)
    /\ UNCHANGED <<session_state, preview, summary>>

\* the Start Game button, pressed on the configuration page last rendered
StartGame ==
    /\ ~GameStarted(session_state)
    /\ config # NoConfig
    /\ ConfigAccepted(config)
    /\ \E cost \in config.min_cost..config.max_cost, scenario \in ScenarioDraws :
          session_state' =
              [game_started |-> TRUE,
               num_rounds |-> config.num_rounds,
               starting_cash |-> config.starting_cash,
               cash |-> config.starting_cash,
               inventory |-> config.starting_inventory,
               current_round |-> 1,
               min_cost |-> config.min_cost,
               max_cost |-> config.max_cost,
               base_demand |-> config.base_demand,
               demand_coeff |-> config.demand_coeff,
               min_price |-> config.min_price,
               current_production_cost |-> cost,
               history |-> <<>>,
               current_scenario |-> scenario]
    /\ config' = NoConfig
    /\ error' = FALSE
    /\ preview' = NoPreview
    /\ summary' = Rendered(session_state')

\* a run of the active-round page with produce_qty and price in the widgets:
\* the caption shows the expected demand and the average inventory cost
Preview(produce_qty, price) ==
    /\ GameStarted(session_state)
    /\ ~GameOver(session_state)
    /\ produce_qty >= 0
    /\ produce_qty <= MaxProduceQty(session_state.cash, session_state.current_production_cost)
    /\ price >= session_state.min_price
    /\ preview' = [produce_qty |-> produce_qty,
                   price |-> price,
                   expected_demand |-> ExpectedDemand(session_state, price),
                   avg_inventory_cost |-> AvgInventoryCost(session_state)]
    /\ UNCHANGED <<session_state, config, error, summary>>

\* the "Produce, Sell, and End Day" button, pressed on the page last rendered
EndDay ==
    /\ GameStarted(session_state)
    /\ ~GameOver(session_state)
    /\ preview # NoPreview
    /\ preview' = NoPreview
    /\ UNCHANGED <<config, error>>
    /\ \E new_cost \in session_state.min_cost..session_state.max_cost,
          new_scenario \in ScenarioDraws :
          session_state' = ResolveRound(session_state, preview.produce_qty,
                                        preview.price, new_cost, new_scenario)
    /\ summary' = Rendered(session_state')

\* the "Play Again with New Settings" button of the game-over page
PlayAgain ==
    /\ GameStarted(session_state)
    /\ GameOver(session_state)
    /\ session_state' = Cleared(session_state)
    /\ preview' = NoPreview
    /\ summary' = NoSummary
    /\ UNCHANGED <<config, error>>

\* the sidebar's "Abandon Game & Reset" button, offered while a game exists
Abandon ==
    /\ GameStarted(session_state)
    /\ session_state' = Cleared(session_state)
    /\ preview' = NoPreview
    /\ summary' = NoSummary
    /\ UNCHANGED <<config, error>>

Next ==
    \/ \E c \in Configs : Configure(c)
    \/ StartGame
    \/ \E produce_qty \in 0..MaxProduce, price \in PriceChoices : Preview(produce_qty, price)
    \/ EndDay
    \/ PlayAgain
    \/ Abandon

Spec ==
    Init /\ [][Next]_vars

(***************************************************************************)
(* What the properties below speak of.                                     *)
(***************************************************************************)
Started ==
    "game_started" \in DOMAIN session_state

History ==
    session_state.history

LastEntry ==
    History[Len(History)]

\* this step is a resolved round: the history grew
RoundResolved ==
    /\ "game_started" \in DOMAIN session_state
    /\ "game_started" \in DOMAIN session_state'
    /\ Len(session_state'.history) > Len(session_state.history)

\* the entry the step appended
NewEntry ==
    session_state'.history[Len(session_state'.history)]

\* fractions a and b are the same number
SameNumber(a, b) ==
    a.num * b.den = b.num * a.den

(***************************************************************************)
(* C1.  Inventory is never negative: in every state of a started game the  *)
(* inventory is >= 0, every record's inventory_after is >= 0, and a        *)
(* resolved round sells at most the inventory at the round's start plus    *)
(* the quantity produced in the round.                                     *)
(***************************************************************************)
InventoryNeverNegative ==
    /\ [](Started =>
            /\ session_state.inventory >= 0
            /\ \A i \in 1..Len(History) : History[i].inventory_after >= 0)
    /\ [][RoundResolved =>
            /\ NewEntry.sales >= 0
            /\ NewEntry.sales <= session_state.inventory + NewEntry.produced
            /\ session_state'.inventory =
                   session_state.inventory + NewEntry.produced - NewEntry.sales]_vars

\* a round in which demand exceeded the stock and everything was sold
SoldOut ==
    /\ Started
    /\ History # <<>>
    /\ LastEntry.demand > LastEntry.sales
    /\ LastEntry.sales > 0
    /\ LastEntry.produced > 0
    /\ session_state.inventory = 0

(***************************************************************************)
(* C2.  Cash is never negative: in every state of a started game cash is   *)
(* >= 0, and in every record the amount spent on production was at most    *)
(* the cash held before production (cash_after - revenue, the cash right   *)
(* after the production step, is >= 0).                                    *)
(***************************************************************************)
CashNeverNegative ==
    Started =>
        /\ session_state.starting_cash >= 0
        /\ session_state.min_price >= 0
        /\ session_state.cash >= 0
        /\ \A i \in 1..Len(History) :
              /\ History[i].spent >= 0
              /\ History[i].cash_after - History[i].revenue >= 0
              /\ History[i].cash_after >= 0

\* a round whose production used up all the cash, at a cost above 1 per unit
SpentAllCash ==
    /\ Started
    /\ History # <<>>
    /\ LastEntry.spent > 0
    /\ LastEntry.production_cost > 1
    /\ LastEntry.cash_after - LastEntry.revenue = 0

(***************************************************************************)
(* C3.  The average cost a round uses for cogs and inventory_cost is the   *)
(* total spent on production divided by the total units produced, over all *)
(* rounds up to and including the round itself: for every record i with    *)
(* units produced in rounds 1..i, cogs = sales x that average and          *)
(* inventory_cost = inventory_after x that average.                        *)
(***************************************************************************)
CostedAtAverageIncludingRound ==
    Started =>
        \A i \in 1..Len(History) :
            LET upto == SubSeq(History, 1, i)
                total_produced == SumOf(upto, "produced")
                total_spent == SumOf(upto, "spent")
            IN  total_produced > 0 =>
                  /\ SameNumber(History[i].cogs,
                                [num |-> History[i].sales * total_spent,
                                 den |-> total_produced])
                  /\ SameNumber(History[i].inventory_cost,
                                [num |-> History[i].inventory_after * total_spent,
                                 den |-> total_produced])

(***************************************************************************)
(* C4.  In every state, the cumulative_profit stored in record r is the    *)
(* sum of the round_profit of records 1..r.                                *)
(***************************************************************************)
RECURSIVE ProfitThrough(_, _)
ProfitThrough(history, r) ==
    IF r = 0 THEN [num |-> 0, den |-> 1]
    ELSE LET before == ProfitThrough(history, r - 1)
             p == history[r].round_profit
         IN  [num |-> before.num * p.den + p.num * before.den,
              den |-> before.den * p.den]

CumulativeProfitIsRunningSum ==
    Started =>
        \A r \in 1..Len(History) :
            SameNumber(History[r].cumulative_profit, ProfitThrough(History, r))

\* two rounds, each with a profit other than zero
TwoProfitableRounds ==
    /\ Started
    /\ Len(History) >= 2
    /\ History[1].round_profit.num # 0
    /\ History[2].round_profit.num # 0
    /\ History[2].cumulative_profit # History[2].round_profit

(***************************************************************************)
(* The lifecycle of section 4.4, read off a session state.                 *)
(***************************************************************************)
IsUnconfigured(s) ==
    "game_started" \notin DOMAIN s

IsActive(s) ==
    /\ "game_started" \in DOMAIN s
    /\ s.current_round <= s.num_rounds

IsFinished(s) ==
    /\ "game_started" \in DOMAIN s
    /\ s.current_round > s.num_rounds

\* the transitions the specification lists, and the steps that make none
ListedTransition(s, t) ==
    \/ IsUnconfigured(s) /\ IsUnconfigured(t)
    \/ IsUnconfigured(s) /\ IsActive(t) /\ t.current_round = 1
    \/ /\ IsActive(s) /\ IsActive(t)
       /\ t.num_rounds = s.num_rounds
       /\ t.current_round \in {s.current_round, s.current_round + 1}
    \/ /\ IsActive(s) /\ IsFinished(t)
       /\ t.num_rounds = s.num_rounds
       /\ s.current_round = s.num_rounds
       /\ t.current_round = s.num_rounds + 1
    \/ IsFinished(s) /\ t = s
    \/ IsFinished(s) /\ IsUnconfigured(t)

\* a reset of a game that is still running
ResetWhileActive(s, t) ==
    IsActive(s) /\ IsUnconfigured(t)

(***************************************************************************)
(* C5, as stated.  Every step is one of Unconfigured -> Active(1),         *)
(* Active(r) -> Active(r+1) with r+1 <= num_rounds, Active(num_rounds) ->  *)
(* Finished and Finished -> Unconfigured: the reset to Unconfigured        *)
(* happens only from Finished, and an Active(r) state is left only for     *)
(* Active(r+1) or Finished.                                                *)
(***************************************************************************)
ResetOnlyFromFinished ==
    [][ListedTransition(session_state, session_state')]_vars

(***************************************************************************)
(* C5, amended.  Every step is one of the listed transitions or a reset    *)
(* Active(r) -> Unconfigured: a game is reset from Finished or from any    *)
(* Active round, and an Active(r) state is left only for Active(r+1),      *)
(* Finished (when r = num_rounds) or Unconfigured.                         *)
(***************************************************************************)
OnlyLifecycleTransitions ==
    [][\/ ListedTransition(session_state, session_state')
       \/ ResetWhileActive(session_state, session_state')]_vars

\* the second round of a game is being played and can be abandoned
SecondRoundCanBeAbandoned ==
    /\ IsActive(session_state)
    /\ session_state.current_round = 2
    /\ Len(session_state.history) = 1
    /\ preview # NoPreview
    /\ ENABLED Abandon

(***************************************************************************)
(* C6.  A finished game is final: while the round counter exceeds          *)
(* num_rounds the round handler is not enabled, every step leaves the      *)
(* session state as it is or clears it, and the history never holds more   *)
(* than num_rounds records.                                                *)
(***************************************************************************)
FinishedIsFinal ==
    /\ [](IsFinished(session_state) => ~ENABLED EndDay)
    /\ [](Started => Len(History) <= session_state.num_rounds)
    /\ [][IsFinished(session_state) =>
            \/ session_state' = session_state
            \/ session_state' = Empty]_vars

\* the game-over page of a two-round game
GameOverAfterTwoRounds ==
    /\ IsFinished(session_state)
    /\ session_state.num_rounds = 2
    /\ Len(History) = 2
    /\ summary # NoSummary
    /\ ENABLED PlayAgain

(***************************************************************************)
(* C7.  A player who keeps entering inputs and ending the day finishes the *)
(* game: from every Active state the game reaches Finished (or is reset),  *)
(* every resolved round raises the round counter by exactly 1 and appends  *)
(* exactly one record, and a finished game has resolved exactly num_rounds *)
(* rounds.                                                                 *)
(***************************************************************************)
LiveSpec ==
    /\ Init /\ [][Next]_vars
    /\ WF_vars(\E produce_qty \in 0..MaxProduce, price \in PriceChoices :
                  Preview(produce_qty, price))
    /\ WF_vars(EndDay)

FinishesAfterNumRounds ==
    /\ IsActive(session_state) ~>
           (IsFinished(session_state) \/ IsUnconfigured(session_state))
    /\ [][RoundResolved =>
            /\ session_state'.current_round = session_state.current_round + 1
            /\ Len(session_state'.history) = Len(session_state.history) + 1]_vars
    /\ [](Started => Len(History) = session_state.current_round - 1)
    /\ [](IsFinished(session_state) =>
            /\ session_state.current_round = session_state.num_rounds + 1
            /\ Len(History) = session_state.num_rounds)

\* a game of the longest length has just been finished
LongestGameFinished ==
    /\ IsFinished(session_state)
    /\ session_state.num_rounds = MaxRounds
    /\ LastEntry.round = MaxRounds

(***************************************************************************)
(* C8.  A configuration with min_cost > max_cost is rejected: the page     *)
(* shows the error, no step from it starts a game, and no session state    *)
(* exists.  With min_cost <= max_cost the Start Game step yields Active(1) *)
(* with cash = starting_cash, inventory = starting_inventory, round        *)
(* counter 1 and an empty history.                                         *)
(***************************************************************************)
StartGameChecksCosts ==
    /\ [](error => session_state = Empty)
    /\ [](Started => session_state.min_cost <= session_state.max_cost)
    /\ [][(IsUnconfigured(session_state) /\ config # NoConfig
            /\ config.min_cost > config.max_cost) =>
               /\ error
               /\ IsUnconfigured(session_state')]_vars
    /\ [][(IsUnconfigured(session_state) /\ ~IsUnconfigured(session_state')) =>
            /\ config.min_cost <= config.max_cost
            /\ IsActive(session_state')
            /\ session_state'.num_rounds = config.num_rounds
            /\ session_state'.starting_cash = config.starting_cash
            /\ session_state'.cash = config.starting_cash
            /\ session_state'.inventory = config.starting_inventory
            /\ session_state'.current_round = 1
            /\ session_state'.history = <<>>]_vars

\* the configuration page shows the error for the widgets' values
ConfigRejected ==
    /\ error
    /\ config # NoConfig
    /\ config.min_cost > config.max_cost
    /\ ~Started

(***************************************************************************)
(* C9.  The demand shown before the commit is the demand of the commit: a  *)
(* resolved round records the price the page showed and, as its demand,    *)
(* the expected demand the page showed for it; and two renderings of the   *)
(* page for the same price in the same round show the same expected        *)
(* demand.                                                                 *)
(***************************************************************************)
EstimateMatchesDemand ==
    /\ [][RoundResolved =>
            /\ NewEntry.price = preview.price
            /\ NewEntry.produced = preview.produce_qty
            /\ NewEntry.demand = preview.expected_demand]_vars
    /\ [][(preview # NoPreview /\ preview' # NoPreview
            /\ preview'.price = preview.price) =>
               preview'.expected_demand = preview.expected_demand]_vars

\* a round resolved with production, under a scenario that lowers the demand
DemandAfterProduction ==
    /\ Started
    /\ History # <<>>
    /\ LastEntry.produced > 0
    /\ LastEntry.demand > 0
    /\ LastEntry.demand < session_state.base_demand + session_state.demand_coeff * LastEntry.price

(***************************************************************************)
(* C10.  The average inventory cost shown before the commit is the one the *)
(* commit uses: a resolved round has cogs = sales x the average shown and  *)
(* inventory_cost = inventory_after x the average shown, whatever quantity *)
(* it produces; and every rendering of the page within one round shows the *)
(* same average.                                                           *)
(***************************************************************************)
ShownAverageIsUsed ==
    /\ [][RoundResolved =>
            /\ SameNumber(NewEntry.cogs,
                          [num |-> NewEntry.sales * preview.avg_inventory_cost.num,
                           den |-> preview.avg_inventory_cost.den])
            /\ SameNumber(NewEntry.inventory_cost,
                          [num |-> NewEntry.inventory_after * preview.avg_inventory_cost.num,
                           den |-> preview.avg_inventory_cost.den])]_vars
    /\ [][(preview # NoPreview /\ preview' # NoPreview) =>
            preview'.avg_inventory_cost = preview.avg_inventory_cost]_vars

\* a round that produced at a cost other than the average of the earlier
\* production, sold some units and kept some
ProducedAtAnotherCost ==
    /\ Started
    /\ Len(History) >= 2
    /\ History[1].produced > 0
    /\ LastEntry.produced > 0
    /\ LastEntry.production_cost # History[1].production_cost
    /\ LastEntry.sales > 0
    /\ LastEntry.inventory_after > 0

(***************************************************************************)
(* One-round games started over a wide range of demand settings: every     *)
(* scenario of the catalog, base demands from 0, coefficients of both      *)
(* signs, and min_price 0 so that every price from 0 may be entered.       *)
(***************************************************************************)
\* the session state Start Game leaves for such a configuration
DemandInit ==
    /\ \E base_demand \in 0..MaxBaseDemand,
          demand_coeff \in (0 - MaxCoeff)..MaxCoeff,
          i \in 1..Len(SCENARIOS) :
          session_state =
              [game_started |-> TRUE,
               num_rounds |-> 1,
               starting_cash |-> 0,
               cash |-> 0,
               inventory |-> 0,
               current_round |-> 1,
               min_cost |-> 1,
               max_cost |-> 1,
               base_demand |-> base_demand,
               demand_coeff |-> demand_coeff,
               min_price |-> 0,
               current_production_cost |-> 1,
               history |-> <<>>,
               current_scenario |-> SCENARIOS[i]]
    /\ config = NoConfig
    /\ error = FALSE
    /\ preview = NoPreview
    /\ summary = NoSummary

\* the player enters a price and ends the day
DemandNext ==
    \/ \E price \in 0..MaxDemandPrice : Preview(0, price)
    \/ EndDay

DemandSpec ==
    DemandInit /\ [][DemandNext]_vars

\* the multiplier, in hundredths, of the scenario of that name
MultiplierOf(name) ==
    SCENARIOS[CHOOSE i \in 1..Len(SCENARIOS) : SCENARIOS[i].name = name].multiplier

\* base_demand + demand_coeff * multiplier * price, in hundredths
ScaledDemand(multiplier, price) ==
    session_state.base_demand * 100 + session_state.demand_coeff * multiplier * price

\* d is max(0, scaled / 100) with its fraction cut off
IsTruncation(d, scaled) ==
    /\ d >= 0
    /\ scaled < 100 => d = 0
    /\ scaled >= 0 => 100 * d <= scaled /\ scaled < 100 * (d + 1)

NothingProducedCostsAtCurrent ==
    Started =>
        \A i \in 1..Len(History) :
            SumFirst(History, "produced", i) = 0 =>
                /\ SameNumber(History[i].cogs,
                              FromInt(History[i].sales * History[i].production_cost))
                /\ SameNumber(History[i].inventory_cost,
                              FromInt(History[i].inventory_after
                                          * History[i].production_cost))

\* the starting inventory is sold in round 2, nothing was ever produced and
\* round 2 has another production cost than round 1
SoldFromStartingInventory ==
    /\ Started
    /\ Len(History) = 2
    /\ SumOf(History, "produced") = 0
    /\ History[2].sales > 0
    /\ History[2].production_cost # History[1].production_cost

\* the started game of the worked example: cash 200, no inventory, cost 10,
\* base demand 50, coefficient -2 and a scenario of multiplier 1.0
ExampleGame ==
    [game_started |-> TRUE,
     num_rounds |-> 1,
     starting_cash |-> 200,
     cash |-> 200,
     inventory |-> 0,
     current_round |-> 1,
     min_cost |-> 10,
     max_cost |-> 10,
     base_demand |-> 50,
     demand_coeff |-> -2,
     min_price |-> 10,
     current_production_cost |-> 10,
     history |-> <<>>,
     current_scenario |-> [name |-> "Example", multiplier |-> 100]]

\* the example's round, 20 produced and priced at 15, gives the stated figures
ExampleRoundAsStated ==
    LET s == ResolveRound(ExampleGame, 20, 15, 10, ExampleGame.current_scenario)
        e == s.history[1]
    IN  /\ Len(s.history) = 1
        /\ e.spent = 200
        /\ e.demand = 20
        /\ e.sales = 20
        /\ e.revenue = 300
        /\ SameNumber(e.cogs, FromInt(200))
        /\ SameNumber(e.round_profit, FromInt(100))
        /\ e.cash_after = 300
        /\ s.cash = 300
        /\ e.inventory_after = 0
        /\ s.inventory = 0

\* the smaller of two integers
Min(a, b) ==
    IF a <= b THEN a ELSE b

(***************************************************************************)
(* C13.  A round is resolved as production, then demand, then sales: with  *)
(* the produce_qty and price entered, spent = produce_qty *                *)
(* production_cost, sales = min(demand, inventory before + produce_qty),   *)
(* revenue = sales * price, cash after = cash before - spent + revenue,    *)
(* inventory after = inventory before + produce_qty - sales, round_profit  *)
(* = revenue - cogs and inventory_value = inventory after * price; and     *)
(* the worked example resolves to the figures stated for it.               *)
(***************************************************************************)
RoundAccountsAddUp ==
    [][RoundResolved =>
          LET e == NewEntry
          IN  /\ e.produced = preview.produce_qty
              /\ e.price = preview.price
              /\ e.production_cost = session_state.current_production_cost
              /\ e.spent = e.produced * e.production_cost
              /\ e.sales = Min(e.demand, session_state.inventory + e.produced)
              /\ e.revenue = e.sales * e.price
              /\ e.cash_after = session_state.cash - e.spent + e.revenue
              /\ session_state'.cash = e.cash_after
              /\ e.inventory_after = session_state.inventory + e.produced - e.sales
              /\ session_state'.inventory = e.inventory_after
              /\ SameNumber(e.round_profit, Minus(FromInt(e.revenue), e.cogs))
              /\ e.inventory_value = e.inventory_after * e.price
              /\ ExampleRoundAsStated]_vars

\* a round that produced two units and sold one of them, demand being 1
ProducedTwoSoldOne ==
    /\ Started
    /\ Len(History) >= 1
    /\ LastEntry.produced = 2
    /\ LastEntry.demand = 1
    /\ LastEntry.sales = 1
    /\ LastEntry.inventory_after >= 1
    /\ LastEntry.revenue > 0

\* the production cost of a started game lies in the configured range
CostInRange(s) ==
    /\ s.current_production_cost \in Int
    /\ s.min_cost <= s.current_production_cost
    /\ s.current_production_cost <= s.max_cost

\* the scenario of a started game is one of the catalog's 10 entries
ScenarioFromCatalog(s) ==
    /\ Len(SCENARIOS) = 10
    /\ \E i \in 1..Len(SCENARIOS) : s.current_scenario = SCENARIOS[i]

\* ending the day can give the next round the cost c and the scenario sc
CanDraw(c, sc) ==
    ENABLED (/\ EndDay
             /\ session_state'.current_production_cost = c
             /\ session_state'.current_scenario = sc)

(***************************************************************************)
(* C14.  In every Active state the production cost is an integer within    *)
(* min_cost..max_cost and the scenario is one of the 10 of the catalog;    *)
(* resolving a round whose successor is <= num_rounds draws the next cost  *)
(* and scenario afresh (every cost of the range and every scenario that    *)
(* is explored can come out), and resolving the last round leaves the      *)
(* cost and the scenario as they were.                                     *)
(***************************************************************************)
CostAndScenarioDrawnPerRound ==
    [][/\ IsActive(session_state') =>
              CostInRange(session_state') /\ ScenarioFromCatalog(session_state')
       /\ (/\ IsActive(session_state)
           /\ preview # NoPreview
           /\ session_state.current_round + 1 <= session_state.num_rounds) =>
              \A c \in session_state.min_cost..session_state.max_cost,
                 sc \in ScenarioDraws : CanDraw(c, sc)
       /\ (RoundResolved /\ IsFinished(session_state')) =>
              /\ session_state'.current_production_cost
                     = session_state.current_production_cost
              /\ session_state'.current_scenario = session_state.current_scenario]_vars

\* a two-round game whose second round had another cost and another scenario
\* than the first, finished with the second round's cost and scenario kept
RedrawnOnceThenKept ==
    /\ Started
    /\ IsFinished(session_state)
    /\ Len(History) = 2
    /\ History[1].production_cost # History[2].production_cost
    /\ History[1].scenario # History[2].scenario
    /\ session_state.current_production_cost = History[2].production_cost
    /\ session_state.current_scenario.name = History[2].scenario

\* the average cost the last round was costed at, recomputed from the
\* records before it
LastRoundAverage ==
    LET before == Len(History) - 1
        total_produced == SumFirst(History, "produced", before)
        total_spent == SumFirst(History, "spent", before)
    IN  IF total_produced > 0
        THEN Frac(total_spent, total_produced)
        ELSE FromInt(LastEntry.production_cost)

(***************************************************************************)
(* C15.  At game end the summary shows total_value_created = profit +      *)
(* inventory_cost with profit = final cash - starting_cash and             *)
(* inventory_cost = ending inventory * the average cost the last round     *)
(* was costed at, while inventory_value = ending inventory * last price    *)
(* stays out of the total; the ending inventory of the state is the last   *)
(* record's inventory_after.                                               *)
(***************************************************************************)
TotalValueIsProfitPlusCostBasis ==
    (Started /\ IsFinished(session_state)) =>
        /\ summary # NoSummary
        /\ Len(History) >= 1
        /\ summary.profit = session_state.cash - session_state.starting_cash
        /\ SameNumber(summary.inventory_cost,
                      Times(session_state.inventory, LastRoundAverage))
        /\ summary.inventory_value = session_state.inventory * LastEntry.price
        /\ SameNumber(summary.total_value_created,
                      Plus(FromInt(summary.profit), summary.inventory_cost))
        /\ session_state.inventory = LastEntry.inventory_after

\* a finished game holding inventory whose cost basis is neither its value
\* at the last price nor its value at the last round's production cost
EndingInventoryAtCostBasis ==
    /\ Started
    /\ IsFinished(session_state)
    /\ session_state.inventory > 0
    /\ ~SameNumber(summary.inventory_cost, FromInt(summary.inventory_value))
    /\ ~SameNumber(summary.inventory_cost,
                   FromInt(session_state.inventory * LastEntry.production_cost))

(***************************************************************************)
(* C16.  The history is append-only: while the game runs a step either     *)
(* leaves the history as it is or appends one record to it, the records    *)
(* before staying as they were and in their order; every resolved round    *)
(* appends exactly one record, whose round field is the round resolved;    *)
(* and record i has round = i.                                             *)
(***************************************************************************)
HistoryIsAppendOnly ==
    [][(Started /\ "game_started" \in DOMAIN session_state') =>
          LET before == session_state.history
              after == session_state'.history
          IN  /\ \/ after = before
                 \/ /\ Len(after) = Len(before) + 1
                    /\ SubSeq(after, 1, Len(before)) = before
                    /\ after[Len(after)].round = session_state.current_round
              /\ session_state' # session_state => Len(after) = Len(before) + 1
              /\ \A i \in 1..Len(after) : after[i].round = i]_vars

\* two rounds on record, in the order they were played, at different prices
TwoRecordsInOrder ==
    /\ Started
    /\ Len(History) = 2
    /\ History[1].round = 1
    /\ History[2].round = 2
    /\ History[1].price # History[2].price

(***************************************************************************)
(* C17.  A reset, by Play Again or by Abandon, discards all game state:    *)
(* the step that ends a started game leaves exactly the state the program  *)
(* starts in, so nothing of the game is left to influence what follows;    *)
(* and the step that starts a game from a valid configuration gives round  *)
(* 1, an empty history, cash = the configured starting_cash and inventory  *)
(* = the configured starting_inventory.                                    *)
(***************************************************************************)
ResetForgetsTheGame ==
    [][/\ (Started /\ IsUnconfigured(session_state')) =>
              /\ session_state' = Empty
              /\ config' = NoConfig
              /\ error' = FALSE
              /\ preview' = NoPreview
              /\ summary' = NoSummary
       /\ (~Started /\ ~IsUnconfigured(session_state')) =>
              /\ ConfigAccepted(config)
              /\ session_state'.current_round = 1
              /\ session_state'.history = <<>>
              /\ session_state'.num_rounds = config.num_rounds
              /\ session_state'.starting_cash = config.starting_cash
              /\ session_state'.cash = config.starting_cash
              /\ session_state'.inventory = config.starting_inventory
              /\ preview' = NoPreview
              /\ summary' = NoSummary]_vars

\* a game that has changed its cash and inventory and filled its history,
\* finished or not, at the moment it can be reset
ChangedGameCanBeReset ==
    /\ Started
    /\ Len(History) >= 1
    /\ session_state.cash # session_state.starting_cash
    /\ session_state.inventory > 0
    /\ preview # NoPreview
    /\ ENABLED (Abandon /\ session_state' = Empty)

(***************************************************************************)
(* C18.  In every state of a started game 1 <= current_round <=            *)
(* num_rounds + 1 and the history holds current_round - 1 records; so a    *)
(* finished game holds exactly num_rounds >= 1 records and its summary     *)
(* always has a last record to read.                                       *)
(***************************************************************************)
RoundCounterCountsRecords ==
    Started =>
        /\ 1 <= session_state.current_round
        /\ session_state.current_round <= session_state.num_rounds + 1
        /\ Len(History) = session_state.current_round - 1
        /\ IsFinished(session_state) =>
              /\ session_state.num_rounds >= 1
              /\ Len(History) = session_state.num_rounds
              /\ History # <<>>

\* a one-round game, finished with its single record
OneRoundGameFinished ==
    /\ Started
    /\ IsFinished(session_state)
    /\ session_state.num_rounds = 1
    /\ session_state.current_round = 2
    /\ Len(History) = 1

\* units produced less units sold over the first n records
NetUnits(history, n) ==
    SumFirst(history, "produced", n) - SumFirst(history, "sales", n)

\* revenue less production spending over the first n records
NetCash(history, n) ==
    SumFirst(history, "revenue", n) - SumFirst(history, "spent", n)

(***************************************************************************)
(* C19.  Cash and inventory are conserved over the resolved rounds: in     *)
(* every state of a started game cash = starting_cash + the sum over the   *)
(* history of (revenue - spent) and inventory = starting_inventory + the   *)
(* sum of (produced - sales), and every record's cash_after and            *)
(* inventory_after are the cash and the inventory right after its round.   *)
(* starting_inventory is not kept in the state: the game starts with       *)
(* inventory = the configured starting_inventory and an empty history,     *)
(* and from then on inventory less the sum of (produced - sales) stays     *)
(* what it was.                                                            *)
(***************************************************************************)
CashAndInventoryConserved ==
    [][~IsUnconfigured(session_state') =>
          LET s == session_state'
              h == session_state'.history
              n == Len(session_state'.history)
          IN  /\ s.cash = s.starting_cash + NetCash(h, n)
              /\ ~Started =>
                    /\ s.inventory = config.starting_inventory
                    /\ s.starting_cash = config.starting_cash
                    /\ h = <<>>
              /\ Started =>
                    s.inventory - NetUnits(h, n)
                        = session_state.inventory - NetUnits(History, Len(History))
              /\ \A i \in 1..n :
                    /\ h[i].cash_after = s.starting_cash + NetCash(h, i)
                    /\ h[i].inventory_after - NetUnits(h, i) = s.inventory - NetUnits(h, n)
              /\ n >= 1 =>
                    /\ h[n].cash_after = s.cash
                    /\ h[n].inventory_after = s.inventory]_vars

\* two rounds that both spent on production and earned revenue, with stock left
TwoRoundsOfTrade ==
    /\ Started
    /\ Len(History) = 2
    /\ History[1].spent > 0
    /\ History[1].revenue > 0
    /\ History[2].spent > 0
    /\ History[2].revenue > 0
    /\ session_state.inventory > 0
    /\ session_state.cash # session_state.starting_cash

(***************************************************************************)
(* C20.  At game end the Total Value Created under the history table (the  *)
(* sum of round_profit over the records + the last record's                *)
(* inventory_cost) is the Total Value Created of the game-over summary     *)
(* (final cash - starting_cash + the last record's inventory_cost).        *)
(***************************************************************************)
TotalValueFiguresAgree ==
    (Started /\ IsFinished(session_state)) =>
        SameNumber(DisplayHistoryTable(History).total_value_created,
                   summary.total_value_created)

====
